---- MODULE Spec2Model ----
(***************************************************************************)
(* CompactTree (src/CompactTree/compact_tree.h): the Newick constructor,   *)
(* the arena store and its query algorithms.                               *)
(*                                                                         *)
(* A node id n is an index into the parallel vectors; vector v's slot for  *)
(* node n is v[n + 1] here (TLA+ sequences start at 1).  A character is a  *)
(* one-character string; labels, tokens and inputs are sequences of them.  *)
(* Edge lengths are the naturals that digit tokens denote.                 *)
(***************************************************************************)
EXTENDS Integers, Sequences, FiniteSets, Bags, TLC

\* ---------------------------------------------------------------- bounds
MaxLen == 4            \* longest input drawn from the whole alphabet
MaxNodes == 4          \* add_child is offered while the store is smaller
MaxSet == 3            \* largest set of arbitrary nodes handed to find_mrca
STR_BUFFER_SIZE == 4   \* capacity of str_buf, scaled down from 16384
IO_BUFFER_SIZE == 3    \* capacity of buf, scaled down from 16384

\* ------------------------------------------------------------- constants
\* std::numeric_limits<CT_NODE_T>::max(), for an 8-bit CT_NODE_T
NULL_NODE == 255
ROOT_NODE == 0
ZERO_LENGTH == 0
\* size_t arithmetic is modulo SIZE_MOD (16-bit size_t)
SIZE_MOD == 65536

\* CT_NODE_T arithmetic: ++node and --node wrap modulo NULL_NODE + 1
NodeInc(n) == (n + 1) % (NULL_NODE + 1)
NodeDec(n) == (n + NULL_NODE) % (NULL_NODE + 1)

\* ------------------------------------------------------------ the store
EMPTY_STRING == << >>

get_num_nodes(t) == Len(t.parent)
NodesOf(t) == 0 .. (Len(t.parent) - 1)
is_root(n) == n = ROOT_NODE
is_leaf(t, n) == Len(t.children[n + 1]) = 0
get_parent(t, n) == t.parent[n + 1]
get_children(t, n) == t.children[n + 1]
has_edge_lengths(t) == Len(t.length) # 0
has_labels(t) == Len(t.label) # 0
get_edge_length(t, n) == IF has_edge_lengths(t) THEN t.length[n + 1] ELSE 0
get_label(t, n) == IF has_labels(t) THEN t.label[n + 1] ELSE EMPTY_STRING

\* compact_tree(): the completely empty store
EmptyTree == [parent |-> << >>, children |-> << >>, label |-> << >>,
              length |-> << >>, num_leaves |-> 0]

\* create_child that puts the new node first among its siblings
create_child_prepends(t, parent_node, store_labels, store_lengths) ==
  LET tmp_node == Len(t.parent)
      ch1 == Append(t.children, << >>)
      ch2 == IF parent_node # NULL_NODE
             THEN [ch1 EXCEPT ![parent_node + 1] = <<tmp_node>> \o @]
             ELSE ch1
  IN [t EXCEPT !.parent = Append(@, parent_node),
               !.children = ch2,
               !.length = IF store_lengths THEN Append(@, 0) ELSE @,
               !.label = IF store_labels THEN Append(@, EMPTY_STRING) ELSE @]

\* create_child: the new node is get_num_nodes(t) (tmp_node)
create_child(t, parent_node, store_labels, store_lengths) ==
  LET tmp_node == Len(t.parent)
      ch1 == Append(t.children, << >>)
      ch2 == IF parent_node # NULL_NODE
             THEN [ch1 EXCEPT ![parent_node + 1] = Append(@, tmp_node)]
             ELSE ch1
  IN [t EXCEPT !.parent = Append(@, parent_node),
               !.children = ch2,
               !.length = IF store_lengths THEN Append(@, 0) ELSE @,
               !.label = IF store_labels THEN Append(@, EMPTY_STRING) ELSE @]

set_edge_length(t, node, new_length) ==
  LET len1 == IF ~has_edge_lengths(t)
              THEN [k \in 1 .. get_num_nodes(t) |-> 0]
              ELSE t.length
  IN [t EXCEPT !.length = [len1 EXCEPT ![node + 1] = new_length]]

set_label(t, node, new_label) ==
  LET lab1 == IF ~has_labels(t)
              THEN [k \in 1 .. get_num_nodes(t) |-> EMPTY_STRING]
              ELSE t.label
  IN [t EXCEPT !.label = [lab1 EXCEPT ![node + 1] = new_label]]

\* clear_edge_lengths / clear_labels: shrink only gives the capacity back
clear_edge_lengths(t, shrink) ==
  IF t.length # << >> THEN [t EXCEPT !.length = << >>] ELSE t

clear_labels(t, shrink) ==
  IF t.label # << >> THEN [t EXCEPT !.label = << >>] ELSE t

\* add_child that counts every new node as one more leaf once cached
add_child_counts_every_child(t, parent_node, new_label, new_length) ==
  LET t1 == IF t.num_leaves # 0 THEN [t EXCEPT !.num_leaves = @ + 1] ELSE t
      x  == Len(t.parent)
      t2 == create_child(t1, parent_node, has_labels(t1), has_edge_lengths(t1))
      t3 == IF new_label # EMPTY_STRING THEN set_label(t2, x, new_label) ELSE t2
  IN IF new_length # 0 THEN set_edge_length(t3, x, new_length) ELSE t3

add_child(t, parent_node, new_label, new_length) ==
  LET t1 == IF t.num_leaves # 0 /\ ~is_leaf(t, parent_node)
            THEN [t EXCEPT !.num_leaves = @ + 1] ELSE t
      x  == Len(t.parent)
      t2 == create_child(t1, parent_node, has_labels(t1), has_edge_lengths(t1))
      t3 == IF new_label # EMPTY_STRING THEN set_label(t2, x, new_label) ELSE t2
  IN IF new_length # 0 THEN set_edge_length(t3, x, new_length) ELSE t3

\* calc_num_leaves adds the number of leaves to the cached count
RECURSIVE CountLeavesFrom(_, _)
CountLeavesFrom(t, curr) ==
  IF curr >= get_num_nodes(t) THEN 0
  ELSE (IF is_leaf(t, curr) THEN 1 ELSE 0) + CountLeavesFrom(t, curr + 1)

calc_num_leaves(t) == [t EXCEPT !.num_leaves = @ + CountLeavesFrom(t, 0)]

\* get_num_leaves: the store after the call; the value returned is its
\* num_leaves
get_num_leaves(t) == IF t.num_leaves = 0 THEN calc_num_leaves(t) ELSE t

get_num_internal(t) == get_num_nodes(t) - get_num_leaves(t).num_leaves

\* compact_tree(const compact_tree & o): member-wise copy
copy_constructor(o) ==
  [parent |-> o.parent, children |-> o.children, label |-> o.label,
   length |-> o.length, num_leaves |-> o.num_leaves]

\* --------------------------------------------------------- number text
Digits == <<"0", "1", "2", "3", "4", "5", "6", "7", "8", "9">>
IsDigit(c) == \E d \in 1 .. 10 : Digits[d] = c
DigitVal(c) == (CHOOSE d \in 1 .. 10 : Digits[d] = c) - 1

RECURSIVE SkipSpaces(_)
SkipSpaces(s) ==
  IF s # << >> /\ Head(s) = " " THEN SkipSpaces(Tail(s)) ELSE s

RECURSIVE AtofDigits(_, _)
AtofDigits(s, acc) ==
  IF s = << >> \/ ~IsDigit(Head(s)) THEN acc
  ELSE AtofDigits(Tail(s), 10 * acc + DigitVal(Head(s)))

\* (float)std::atof: skip leading blanks, convert the longest numeric
\* prefix, 0 when there is none (the alphabet has no sign, point, exponent)
PARSE_LENGTH_FROM_C_STR(s) == AtofDigits(SkipSpaces(s), 0)

\* operator<<(float): %g with six significant digits prints every digit of
\* an integral value below 10^6
RECURSIVE FormatLength(_)
FormatLength(x) ==
  IF x < 10 THEN <<Digits[x + 1]>>
  ELSE Append(FormatLength(x \div 10), Digits[(x % 10) + 1])

\* -------------------------------------------------------- print_newick
RECURSIVE print_newick(_, _, _)
RECURSIVE PrintChildren(_, _, _)
PrintChildren(t, ch, k) ==
  IF k > Len(ch) THEN << >>
  ELSE <<(IF k = 1 THEN "(" ELSE ",")>> \o print_newick(t, ch[k], FALSE)
       \o PrintChildren(t, ch, k + 1)

\* print_newick that leaves out the length of an edge of length zero
print_newick_omits_zero_length(t, node, include_semicolon) ==
  PrintChildren(t, t.children[node + 1], 1)
  \o (IF ~is_leaf(t, node) THEN <<")">> ELSE << >>)
  \o (IF Len(t.label) # 0 THEN t.label[node + 1] ELSE << >>)
  \o (IF Len(t.length) # 0 /\ t.length[node + 1] # 0
      THEN <<":">> \o FormatLength(t.length[node + 1]) ELSE << >>)
  \o (IF include_semicolon THEN <<";">> ELSE << >>)

print_newick(t, node, include_semicolon) ==
  PrintChildren(t, t.children[node + 1], 1)
  \o (IF ~is_leaf(t, node) THEN <<")">> ELSE << >>)
  \o (IF Len(t.label) # 0 THEN t.label[node + 1] ELSE << >>)
  \o (IF Len(t.length) # 0 THEN <<":">> \o FormatLength(t.length[node + 1])
      ELSE << >>)
  \o (IF include_semicolon THEN <<";">> ELSE << >>)

get_newick(t, node, include_semicolon) == print_newick(t, node, include_semicolon)

\* ------------------------------------------------- the Newick constructor
\* Locals of the constructor when the byte loop is entered (lines 636-642);
\* str_buf holds the str_buf_i characters written since the last reset.
InitLex == [curr_node |-> ROOT_NODE, parse_length |-> FALSE,
            parse_label |-> FALSE, parse_label_single |-> FALSE,
            parse_label_double |-> FALSE, parse_comment |-> FALSE,
            str_buf |-> << >>]

\* One outcome of handling a byte: the store, the locals, how construction
\* stands ("parsing", "returned", "error" for a thrown invalid_argument,
\* "crashed"), whether the byte is re-read (--i), and the kinds of access
\* outside an array that happened: "vector" (parent, label or length indexed
\* by a node that does not exist), "str_buf".
Outcome(t, l, st, rr, u) == [t |-> t, l |-> l, st |-> st, rr |-> rr, ub |-> u]

\* An access outside the bounds of an array is undefined: the process may
\* die, or go on (t: the store it goes on with).
Undefined(t, l, rr, kinds) ==
  {Outcome(t, l, "crashed", FALSE, kinds), Outcome(t, l, "parsing", rr, kinds)}

InBounds(t, n) == n < Len(t.parent)

\* str_buf[str_buf_i++] = c
PutChar(l, c) == [l EXCEPT !.str_buf = Append(@, c)]
\* a write at str_buf[str_buf_i] is inside the array
StrBufHasRoom(l) == Len(l.str_buf) < STR_BUFFER_SIZE
StrBufKinds(l) == IF StrBufHasRoom(l) THEN {} ELSE {"str_buf"}
VectorKinds(t, n) == IF InBounds(t, n) THEN {} ELSE {"vector"}

\* a step without a branch of its own: undefined if kinds is not empty
Step(t, l, rr, kinds) ==
  IF kinds = {} THEN {Outcome(t, l, "parsing", rr, {})}
  ELSE Undefined(t, l, rr, kinds)

\* a ']' that also ends the length token the comment interrupted
LexCommentEndsLength(t, l, c) ==
  Step(t, IF c = "]" THEN [l EXCEPT !.parse_comment = FALSE, !.parse_length = FALSE]
          ELSE l, FALSE, {})

\* currently parsing a comment (lines 670-675)
LexComment(t, l, c) ==
  Step(t, IF c = "]" THEN [l EXCEPT !.parse_comment = FALSE] ELSE l, FALSE, {})

\* length[curr_node] = PARSE_LENGTH_FROM_C_STR(str_buf) (line 684)
StoreLength(t, l) ==
  IF InBounds(t, l.curr_node)
  THEN [t EXCEPT !.length[l.curr_node + 1] = PARSE_LENGTH_FROM_C_STR(l.str_buf)]
  ELSE t

\* currently parsing an edge length (lines 678-696)
LexLength(t, l, c, store_lengths) ==
  IF c \in {",", ")", ";"} THEN
    LET l2 == [l EXCEPT !.parse_length = FALSE] IN
    IF ~store_lengths THEN Step(t, l2, TRUE, {})
    ELSE Step(StoreLength(t, l), l2, TRUE,
              StrBufKinds(l) \cup VectorKinds(t, l.curr_node))
  ELSE IF c = "[" THEN Step(t, [l EXCEPT !.parse_comment = TRUE], FALSE, {})
  ELSE IF ~store_lengths THEN Step(t, l, FALSE, {})
  ELSE Step(t, PutChar(l, c), FALSE, StrBufKinds(l))

\* label[curr_node] = str_buf (line 722)
StoreLabel(t, l) ==
  IF InBounds(t, l.curr_node)
  THEN [t EXCEPT !.label[l.curr_node + 1] = l.str_buf]
  ELSE t

\* the label is finished (lines 721-724); kinds: what the byte did before
FinalizeLabel(t, l, rr, store_labels, kinds) ==
  IF ~store_labels THEN Step(t, l, rr, kinds)
  ELSE Step(StoreLabel(t, l), l, rr,
            kinds \cup StrBufKinds(l) \cup VectorKinds(t, l.curr_node))

\* a label parser that ends a quoted label without storing the closing quote
LexLabelDropsClosingQuote(t, l, c, store_labels) ==
  IF l.parse_label_single \/ l.parse_label_double THEN
    LET closing == \/ c = "'" /\ l.parse_label_single
                   \/ c = "\"" /\ l.parse_label_double
        kinds == IF store_labels /\ ~closing THEN StrBufKinds(l) ELSE {}
        l1 == IF store_labels /\ ~closing THEN PutChar(l, c) ELSE l
        l2 == IF closing
              THEN [l1 EXCEPT !.parse_label = FALSE, !.parse_label_single = FALSE,
                              !.parse_label_double = FALSE]
              ELSE l1
    IN IF closing THEN FinalizeLabel(t, l2, FALSE, store_labels, kinds)
       ELSE Step(t, l2, FALSE, kinds)
  ELSE IF c \in {":", ",", ")", ";"} THEN
    FinalizeLabel(t, [l EXCEPT !.parse_label = FALSE], TRUE, store_labels, {})
  ELSE IF ~store_labels THEN Step(t, l, FALSE, {})
  ELSE Step(t, PutChar(l, c), FALSE, StrBufKinds(l))

\* currently parsing a node label (lines 699-725)
LexLabel(t, l, c, store_labels) ==
  IF l.parse_label_single \/ l.parse_label_double THEN
    LET kinds == IF store_labels THEN StrBufKinds(l) ELSE {}
        l1 == IF store_labels THEN PutChar(l, c) ELSE l
        l2 == IF c = "'" /\ l.parse_label_single
              THEN [l1 EXCEPT !.parse_label = FALSE, !.parse_label_single = FALSE]
              ELSE IF c = "\"" /\ l.parse_label_double
              THEN [l1 EXCEPT !.parse_label = FALSE, !.parse_label_double = FALSE]
              ELSE l1
    IN IF ~l2.parse_label THEN FinalizeLabel(t, l2, FALSE, store_labels, kinds)
       ELSE Step(t, l2, FALSE, kinds)
  ELSE IF c \in {":", ",", ")", ";"} THEN
    FinalizeLabel(t, [l EXCEPT !.parse_label = FALSE], TRUE, store_labels, {})
  ELSE IF ~store_labels THEN Step(t, l, FALSE, {})
  ELSE Step(t, PutChar(l, c), FALSE, StrBufKinds(l))

\* case ';' without the return: the loop goes on after a ';' at the root
LexSemicolonContinues(t, l) ==
  IF l.curr_node # 0 THEN {Outcome(t, l, "error", FALSE, {})}
  ELSE Step(t, l, FALSE, {})

\* case ';' (lines 735-739)
LexSemicolon(t, l) ==
  IF l.curr_node # 0 THEN {Outcome(t, l, "error", FALSE, {})}
  ELSE {Outcome(t, l, "returned", FALSE, {})}

\* case '(' (lines 742-746)
LexOpen(t, l, store_labels, store_lengths) ==
  IF l.curr_node = NULL_NODE THEN {Outcome(t, l, "error", FALSE, {})}
  ELSE Step(create_child(t, l.curr_node, store_labels, store_lengths),
            [l EXCEPT !.curr_node = Len(t.parent)], FALSE, {})

\* case ')' (lines 749-750): curr_node = parent[curr_node], unguarded; a read
\* outside parent yields any node id
LexClose(t, l) ==
  IF InBounds(t, l.curr_node)
  THEN Step(t, [l EXCEPT !.curr_node = t.parent[l.curr_node + 1]], FALSE, {})
  ELSE {Outcome(t, l, "crashed", FALSE, {"vector"})}
       \cup {Outcome(t, [l EXCEPT !.curr_node = v], "parsing", FALSE, {"vector"}) :
               v \in NodesOf(t) \cup {NULL_NODE}}

\* case ',' (lines 753-757)
LexComma(t, l, store_labels, store_lengths) ==
  IF l.curr_node = NULL_NODE \/ t.parent[l.curr_node + 1] = NULL_NODE
  THEN {Outcome(t, l, "error", FALSE, {})}
  ELSE Step(create_child(t, t.parent[l.curr_node + 1], store_labels, store_lengths),
            [l EXCEPT !.curr_node = Len(t.parent)], FALSE, {})

\* all other symbols (lines 728-783)
LexNormal(t, l, c, store_labels, store_lengths) ==
  CASE c = " " -> Step(t, l, FALSE, {})
    [] c = ";" -> LexSemicolon(t, l)
    [] c = "(" -> LexOpen(t, l, store_labels, store_lengths)
    [] c = ")" -> LexClose(t, l)
    [] c = "," -> LexComma(t, l, store_labels, store_lengths)
    [] c = "[" -> Step(t, [l EXCEPT !.parse_comment = TRUE], FALSE, {})
    [] c = ":" -> Step(t, [l EXCEPT !.parse_length = TRUE,
                              !.str_buf = IF store_lengths THEN << >> ELSE @],
                       FALSE, {})
    [] c = "'" -> Step(t, [l EXCEPT !.parse_label = TRUE,
                              !.parse_label_single = TRUE,
                              !.str_buf = IF store_labels THEN << >> ELSE @],
                       FALSE, {})
    [] c = "\"" -> Step(t, [l EXCEPT !.parse_label = TRUE,
                               !.parse_label_double = TRUE,
                               !.str_buf = IF store_labels THEN << >> ELSE @],
                        FALSE, {})
    [] OTHER -> Step(t, [l EXCEPT !.parse_label = TRUE,
                            !.str_buf = IF store_labels THEN << >> ELSE @],
                     TRUE, {})

\* the body of the for loop for one byte (lines 668-783)
LexByte(t, l, c, store_labels, store_lengths) ==
  IF l.parse_comment THEN LexComment(t, l, c)
  ELSE IF l.parse_length THEN LexLength(t, l, c, store_lengths)
  ELSE IF l.parse_label THEN LexLabel(t, l, c, store_labels)
  ELSE LexNormal(t, l, c, store_labels, store_lengths)

\* The constructor run over a whole input s from position pos: every way it
\* can end.  Input exhausted: bytes_read == 0, the constructor throws.
RECURSIVE RunFrom(_, _, _, _, _, _, _)
RunFrom(t, l, u, s, pos, store_labels, store_lengths) ==
  IF pos > Len(s) THEN {Outcome(t, l, "error", FALSE, u)}
  ELSE UNION {
         IF o.st = "parsing"
         THEN RunFrom(o.t, o.l, u \cup o.ub, s,
                      IF o.rr THEN pos ELSE pos + 1, store_labels, store_lengths)
         ELSE {[o EXCEPT !.ub = u \cup o.ub]} :
         o \in LexByte(t, l, s[pos], store_labels, store_lengths)}

Construct(s, store_labels, store_lengths) ==
  RunFrom(create_child(EmptyTree, NULL_NODE, store_labels, store_lengths),
          InitLex, {}, s, 1, store_labels, store_lengths)


\* ------------------------------------------------------------ the inputs
Alphabet == {"(", ")", ",", ";", ":", "'", "\"", "[", "]", " ", "a", "1"}

ShortInputs == UNION {[1 .. k -> Alphabet] : k \in 0 .. MaxLen}

\* the inputs the specification and the drivers' documentation name
ExampleInputs ==
  { <<"(", "A", ",", "B">>,
    <<"A", ",", "B", ")", ";">>,
    <<")", "A", ";">>,
    <<"(", "A", ",", "B", ";">>,
    <<"(", "A", ",", "B", ")", ";", "x">>,
    <<"(", "A", ",", "B", ")", ";", "(", "C", ",", "D", ")", ";">>,
    <<"(", "A", ":", "1", ",", "B", ":", "2", ")", "C", ":", "0", ";">>,
    <<"(", ",", ")", ";">>,
    <<"(", " ", "A", " ", ",", "B", " ", ")", ";">>,
    <<"(", "'", "a", ",", "'", ",", "b", ")", ";">>,
    <<"(", "a", "a", "a", "a", ",", "b", ")", ";">>,
    <<"(", ",", ")", ")", ")", "(", ")", ")", ";">>,
    <<"(", "(", "a", ",", "a", ")", ",", "a", ")", ";">>,
    <<"a", ":", "1", "[", "a", "]", "1", ";">> }

Inputs == ShortInputs \cup ExampleInputs

\* ------------------------------------------------------------- the state
VARIABLES
  input,    \* the bytes of the file, or of the C string, handed to the constructor
  args,     \* is_fn, store_labels, store_lengths
  io,       \* fd, buf, bytes_read, i, input_i; open: the descriptor is open
  lex,      \* the other locals of the constructor
  tree,     \* parent, children, label, length, num_leaves of the store
  status,   \* where construction stands
  ub,       \* the kinds of out-of-bounds access that have happened
  last      \* the call made on the store last, with its arguments and result

vars == <<input, args, io, lex, tree, status, ub, last>>

NoCall == [op |-> "none"]

InitIo == [fd |-> -1, open |-> FALSE, buf |-> << >>, bytes_read |-> 0,
           i |-> 0, input_i |-> 0]

\* size_t ++i and --i
SizeInc(x) == (x + 1) % SIZE_MOD
\* a --i that stops at 0 instead of wrapping
SizeDecSaturating(x) == IF x = 0 THEN 0 ELSE x - 1

SizeDec(x) == (x + SIZE_MOD - 1) % SIZE_MOD

\* the constructor is entered
InitParse ==
  /\ input \in Inputs
  /\ args \in [is_fn : BOOLEAN, store_labels : BOOLEAN, store_lengths : BOOLEAN]
  /\ io = InitIo
  /\ lex = InitLex
  /\ tree = EmptyTree
  /\ status = "start"
  /\ ub = {}
  /\ last = NoCall

\* lines 619-642: open the file, seed the root
Setup ==
  /\ status = "start"
  /\ \/ /\ args.is_fn
        /\ io' = [io EXCEPT !.fd = 3, !.open = TRUE]
        /\ status' = "parsing"
        /\ tree' = create_child(tree, NULL_NODE, args.store_labels, args.store_lengths)
     \/ /\ args.is_fn      \* open() returned -1
        /\ io' = io
        /\ status' = "open_error"
        /\ tree' = tree
     \/ /\ ~args.is_fn
        /\ io' = io
        /\ status' = "parsing"
        /\ tree' = create_child(tree, NULL_NODE, args.store_labels, args.store_lengths)
  /\ UNCHANGED <<input, args, lex, ub, last>>

\* lines 646-665: refill buf from the file or from the C string
RefillCount == IF io.input_i + IO_BUFFER_SIZE <= Len(input)
               THEN IO_BUFFER_SIZE ELSE Len(input) - io.input_i

Refill ==
  /\ status = "parsing"
  /\ io.i = io.bytes_read
  /\ \/ /\ RefillCount # 0
        /\ io' = [io EXCEPT !.bytes_read = RefillCount,
                            !.buf = SubSeq(input, io.input_i + 1,
                                           io.input_i + RefillCount),
                            !.input_i = @ + RefillCount,
                            !.i = 0]
        /\ status' = status
     \/ /\ RefillCount = 0
        /\ io' = [io EXCEPT !.bytes_read = 0]
        /\ status' = "error"
     \/ /\ args.is_fn     \* read() returned -1
        /\ io' = [io EXCEPT !.bytes_read = SizeDec(0)]
        /\ status' = "error"
  /\ UNCHANGED <<input, args, lex, tree, ub, last>>

\* lines 668-784: one pass of the for loop
ProcessByte ==
  /\ status = "parsing"
  /\ io.i < io.bytes_read
  /\ \E o \in LexByte(tree, lex, io.buf[io.i + 1], args.store_labels,
                      args.store_lengths) :
       /\ tree' = o.t
       /\ lex' = o.l
       /\ status' = o.st
       /\ ub' = ub \cup o.ub
       /\ io' = IF o.st # "parsing" THEN io
                ELSE IF o.rr THEN [io EXCEPT !.i = SizeInc(SizeDec(@))]
                ELSE [io EXCEPT !.i = SizeInc(@)]
  /\ UNCHANGED <<input, args, last>>

\* get_newick() on the store the constructor returned
GetNewick ==
  /\ status = "returned"
  /\ last = NoCall
  /\ last' = [op |-> "get_newick", node |-> ROOT_NODE,
              ret |-> get_newick(tree, ROOT_NODE, TRUE)]
  /\ UNCHANGED <<input, args, io, lex, tree, status, ub>>

NextParse == Setup \/ Refill \/ ProcessByte \/ GetNewick

SpecParse == InitParse /\ [][NextParse]_vars

\* the constructor is one sequential loop: a step that can be taken is taken
SpecParseFair == SpecParse /\ WF_vars(NextParse)


\* ---------------------------------------------------------- the queries
\* std::unordered_map: operator[] inserts a zero for an absent key
EmptyMap == [x \in {} |-> 0]
MapGet(m, k) == IF k \in DOMAIN m THEN m[k] ELSE 0
MapPut(m, k, v) == [x \in DOMAIN m \cup {k} |-> IF x = k THEN v ELSE m[x]]

\* calc_dist, line 497: the walk from u to the root
RECURSIVE UWalk(_, _, _, _)
UWalk(t, c, p, u_dists) ==
  IF p = NULL_NODE THEN u_dists
  ELSE LET m1 == MapPut(u_dists, c, MapGet(u_dists, c))
           m2 == MapPut(m1, p, m1[c] + get_edge_length(t, c))
       IN UWalk(t, p, t.parent[p + 1], m2)

\* calc_dist, lines 498-499: the walk from v up to a node of u's walk
RECURSIVE VWalk(_, _, _, _, _)
VWalk(t, c, p, u_dists, v_dists) ==
  IF p = NULL_NODE THEN -1
  ELSE LET m1 == MapPut(v_dists, c, MapGet(v_dists, c))
           m2 == MapPut(m1, p, m1[c] + get_edge_length(t, c))
       IN IF p \in DOMAIN u_dists THEN u_dists[p] + m2[p]
          ELSE VWalk(t, p, t.parent[p + 1], u_dists, m2)

calc_dist(t, u, v) ==
  IF u = v THEN 0
  ELSE IF u = t.parent[v + 1] THEN get_edge_length(t, v)
  ELSE IF v = t.parent[u + 1] THEN get_edge_length(t, u)
  ELSE VWalk(t, v, t.parent[v + 1], UWalk(t, u, t.parent[u + 1], EmptyMap),
             EmptyMap)

\* the comparison of line 529 off by one
MrcaCountReachedOffByOne(cnt, total) == cnt >= total - 1

\* find_mrca, line 529: the counter of the node reaches the size of the set
MrcaCountReached(cnt, total) == cnt = total

\* find_mrca, lines 524-536; to_visit starts as the members of the set in
\* the order the unordered_set yields them
RECURSIVE MrcaLoop(_, _, _, _)
MrcaLoop(t, to_visit, count, total) ==
  IF to_visit = << >> THEN NULL_NODE
  ELSE LET curr_node == Head(to_visit)
           curr_parent == t.parent[curr_node + 1]
           cnt == MapGet(count, curr_node) + 1
       IN IF MrcaCountReached(cnt, total) THEN curr_node
          ELSE MrcaLoop(t,
                        IF curr_parent # NULL_NODE
                        THEN Append(Tail(to_visit), curr_parent)
                        ELSE Tail(to_visit),
                        MapPut(count, curr_node, cnt), total)

\* find_mrca with total one short of the size of the set
find_mrca_total_short(t, order) == MrcaLoop(t, order, EmptyMap, Len(order) - 1)

find_mrca(t, order) == MrcaLoop(t, order, EmptyMap, Len(order))

\* calc_distance_matrix, line 580: length[child] is read unchecked; oob is
\* what a read past the end of an empty length vector yields
UncheckedLength(t, child, oob) ==
  IF child < Len(t.length) THEN t.length[child + 1] ELSE oob

\* line 570 without the edge of the second child
PairDistOneEdge(t, child, child_2, d1, d2) ==
  d1 + d2 + get_edge_length(t, child)

\* line 570: the distance of one emitted pair
PairDist(t, child, child_2, d1, d2) ==
  d1 + d2 + get_edge_length(t, child) + get_edge_length(t, child_2)

\* lines 564-574: the entries an internal node emits, as a bag
PairEntries(t, curr, leaf_dists) ==
  LET ch == t.children[curr + 1]
      combos == {q \in (1 .. Len(ch)) \X (1 .. Len(ch)) \X NodesOf(t) \X NodesOf(t) :
                   /\ q[1] < q[2]
                   /\ q[3] \in DOMAIN leaf_dists[ch[q[1]]]
                   /\ q[4] \in DOMAIN leaf_dists[ch[q[2]]]}
      entry(q) == <<q[3], q[4],
                    PairDist(t, ch[q[1]], ch[q[2]],
                             leaf_dists[ch[q[1]]][q[3]], leaf_dists[ch[q[2]]][q[4]])>>
      es == {entry(q) : q \in combos}
  IN [e \in es |-> Cardinality({q \in combos : entry(q) = e})]

\* lines 577-583: emplace the leaves of each child, in children order
RECURSIVE MergeChildren(_, _, _, _, _, _)
MergeChildren(t, ch, k, leaf_dists, m, oob) ==
  IF k > Len(ch) THEN m
  ELSE LET cm == leaf_dists[ch[k]]
           len == UncheckedLength(t, ch[k], oob)
           m1 == [x \in DOMAIN m \cup DOMAIN cm |->
                    IF x \in DOMAIN m THEN m[x] ELSE cm[x] + len]
       IN MergeChildren(t, ch, k + 1, leaf_dists, m1, oob)

\* lines 552-585: curr runs from NUM_NODES-1 down until it wraps to NULL_NODE
RECURSIVE DmLoop(_, _, _, _, _)
DmLoop(t, curr, leaf_dists, dm, oob) ==
  IF curr = NULL_NODE THEN dm
  ELSE IF is_leaf(t, curr)
  THEN DmLoop(t, NodeDec(curr), MapPut(leaf_dists, curr, MapPut(EmptyMap, curr, 0)),
              dm, oob)
  ELSE DmLoop(t, NodeDec(curr),
              MapPut(leaf_dists, curr,
                     MergeChildren(t, t.children[curr + 1], 1, leaf_dists,
                                   EmptyMap, oob)),
              dm (+) PairEntries(t, curr, leaf_dists), oob)

\* the entries of the returned vector, as a bag of <<u, v, distance>>
calc_distance_matrix(t, oob) ==
  DmLoop(t, NodeDec(get_num_nodes(t) % (NULL_NODE + 1)), EmptyMap, EmptyBag, oob)

\* extract_subtree, lines 609-611: push (child, new node) for every child
RECURSIVE PushChildren(_, _, _, _, _, _)
PushChildren(nt, to_copy, ch, k, second, flags) ==
  IF k > Len(ch) THEN [new_tree |-> nt, to_copy |-> to_copy]
  ELSE PushChildren(create_child(nt, second, flags.has_labels, flags.has_lengths),
                    Append(to_copy, <<ch[k], Len(nt.parent)>>),
                    ch, k + 1, second, flags)

\* extract_subtree, lines 605-612
RECURSIVE ExtractLoop(_, _, _, _)
ExtractLoop(t, nt, to_copy, flags) ==
  IF to_copy = << >> THEN nt
  ELSE LET curr == to_copy[Len(to_copy)]
           rest == SubSeq(to_copy, 1, Len(to_copy) - 1)
           nt1 == IF flags.has_lengths
                  THEN [nt EXCEPT !.length[curr[2] + 1] = t.length[curr[1] + 1]]
                  ELSE nt
           nt2 == IF flags.has_labels
                  THEN [nt1 EXCEPT !.label[curr[2] + 1] = t.label[curr[1] + 1]]
                  ELSE nt1
           r == PushChildren(nt2, rest, t.children[curr[1] + 1], 1, curr[2], flags)
       IN ExtractLoop(t, r.new_tree, r.to_copy, flags)

\* extract_subtree that copies the labels but not the edge lengths
extract_subtree_drops_lengths(t, node) ==
  LET flags == [has_lengths |-> FALSE, has_labels |-> Len(t.label) # 0]
      nt0 == create_child(EmptyTree, NULL_NODE, flags.has_labels, flags.has_lengths)
      nt2 == IF flags.has_labels
             THEN [nt0 EXCEPT !.label = Append(@, EMPTY_STRING)] ELSE nt0
  IN ExtractLoop(t, nt2, << <<node, 0>> >>, flags)

extract_subtree(t, node) ==
  LET flags == [has_lengths |-> Len(t.length) # 0, has_labels |-> Len(t.label) # 0]
      nt0 == create_child(EmptyTree, NULL_NODE, flags.has_labels, flags.has_lengths)
      nt1 == IF flags.has_lengths
             THEN [nt0 EXCEPT !.length = Append(@, ZERO_LENGTH)] ELSE nt0
      nt2 == IF flags.has_labels
             THEN [nt1 EXCEPT !.label = Append(@, EMPTY_STRING)] ELSE nt1
  IN ExtractLoop(t, nt2, << <<node, 0>> >>, flags)

\* calc_total_bl, lines 462-470
RECURSIVE TotalBlFrom(_, _, _, _)
TotalBlFrom(t, node, include_internal, include_leaves) ==
  IF node >= get_num_nodes(t) THEN 0
  ELSE (IF is_leaf(t, node)
        THEN (IF include_leaves THEN get_edge_length(t, node) ELSE 0)
        ELSE (IF include_internal THEN get_edge_length(t, node) ELSE 0))
       + TotalBlFrom(t, node + 1, include_internal, include_leaves)

\* calc_total_bl whose scan starts after the root
calc_total_bl_skips_root(t, include_internal, include_leaves) ==
  IF ~(include_internal \/ include_leaves) THEN 0
  ELSE TotalBlFrom(t, 1, include_internal, include_leaves)

calc_total_bl(t, include_internal, include_leaves) ==
  IF ~(include_internal \/ include_leaves) THEN 0
  ELSE TotalBlFrom(t, 0, include_internal, include_leaves)

\* calc_avg_bl, lines 477-485: count is the number of nodes added to tot
RECURSIVE AvgCountFrom(_, _, _, _)
AvgCountFrom(t, node, include_internal, include_leaves) ==
  IF node >= get_num_nodes(t) THEN 0
  ELSE (IF is_leaf(t, node)
        THEN (IF include_leaves THEN 1 ELSE 0)
        ELSE (IF include_internal THEN 1 ELSE 0))
       + AvgCountFrom(t, node + 1, include_internal, include_leaves)

\* The value returned is the quotient tot / count, kept as the pair; with
\* both flags false the function returns 0 before the scan (0 / 1 here).
\* count = 0 makes the division 0 / 0.
calc_avg_bl(t, include_internal, include_leaves) ==
  IF ~(include_internal \/ include_leaves) THEN [tot |-> 0, count |-> 1, divided |-> FALSE]
  ELSE [tot |-> TotalBlFrom(t, 0, include_internal, include_leaves),
        count |-> AvgCountFrom(t, 0, include_internal, include_leaves),
        divided |-> TRUE]

\* preorder_iterator: operator++ is ++node
preorder_begin == ROOT_NODE
preorder_end(t) == get_num_nodes(t) % (NULL_NODE + 1)

\* for(it = preorder_begin(); it != preorder_end(); ++it): the nodes yielded
RECURSIVE PreorderFrom(_, _)
PreorderFrom(t, it) ==
  IF it = preorder_end(t) THEN << >>
  ELSE <<it>> \o PreorderFrom(t, NodeInc(it))

PreorderSequence(t) == PreorderFrom(t, preorder_begin)

\* postorder_begin that starts at get_num_nodes()
postorder_begin_at_size(t) == get_num_nodes(t) % (NULL_NODE + 1)

\* postorder_iterator: operator++ is --node, which wraps from 0 to NULL_NODE
postorder_begin(t) == (get_num_nodes(t) + NULL_NODE) % (NULL_NODE + 1)
postorder_end == NULL_NODE

RECURSIVE PostorderFrom(_, _)
PostorderFrom(t, it) ==
  IF it = postorder_end THEN << >>
  ELSE <<it>> \o PostorderFrom(t, NodeDec(it))

PostorderSequence(t) == PostorderFrom(t, postorder_begin(t))

\* levelorder_iterator holds a queue: begin holds the root, end is empty
levelorder_begin == <<ROOT_NODE>>
levelorder_end == << >>

\* operator++ that puts the children at the front of the queue
LevelAdvanceDepthFirst(t, q) == t.children[Head(q) + 1] \o Tail(q)

\* operator++: push the children of the front node, then pop it
LevelAdvance(t, q) == Tail(q \o t.children[Head(q) + 1])

\* for(it = levelorder_begin(); it != levelorder_end(); ++it): *it is q.front()
RECURSIVE LevelorderFrom(_, _)
LevelorderFrom(t, q) ==
  IF q = levelorder_end THEN << >>
  ELSE <<Head(q)>> \o LevelorderFrom(t, LevelAdvance(t, q))

LevelorderSequence(t) == LevelorderFrom(t, levelorder_begin)

\* leaves_iterator::operator++ and the loop of leaves_begin
RECURSIVE LeafAdvance(_, _)
LeafAdvance(t, node) ==
  LET n1 == NodeInc(node)
  IN IF n1 < get_num_nodes(t) /\ ~is_leaf(t, n1) THEN LeafAdvance(t, n1) ELSE n1

leaves_begin(t) == LeafAdvance(t, ROOT_NODE)
leaves_end(t) == get_num_nodes(t) % (NULL_NODE + 1)

\* for(it = leaves_begin(); it != leaves_end(); ++it): the nodes yielded
RECURSIVE IterateFrom(_, _)
IterateFrom(t, it) ==
  IF it = leaves_end(t) THEN << >>
  ELSE <<it>> \o IterateFrom(t, LeafAdvance(t, it))

LeavesSequence(t) == IterateFrom(t, leaves_begin(t))


\* ------------------------------------------------ operations on a store
\* the constructor calls the stores of Spec come from:
\* <<input, store_labels, store_lengths>>
SeedCalls ==
  { << <<";">>, TRUE, TRUE >>,
    << <<";">>, FALSE, FALSE >>,
    << <<"(", "a", ":", "2", ")", ":", "1", ";">>, TRUE, TRUE >>,
    << <<"(", "a", ":", "2", ")", ":", "1", ";">>, FALSE, TRUE >>,
    << <<"(", "a", ":", "2", ")", ":", "1", ";">>, TRUE, FALSE >> }

\* the arguments add_child is called with: the defaults, or a label and a
\* length
ChildArgs == { <<EMPTY_STRING, ZERO_LENGTH>>, << <<"a">>, 1>> }

\* what an unchecked read past the end of the length vector may yield
OobValues == {0, 7}

\* the orders in which an unordered_set of 1 .. n nodes of S can be traversed
OrdersUpTo(S, n) ==
  {q \in UNION {[1 .. k -> S] : k \in 1 .. n} :
     \A a, b \in DOMAIN q : a # b => q[a] # q[b]}
Orders(S) == {q \in OrdersUpTo(S, Cardinality(S)) : Len(q) = Cardinality(S)}
LeavesOf(t) == {n \in NodesOf(t) : is_leaf(t, n)}
Range(q) == {q[k] : k \in DOMAIN q}

\* a store returned by the constructor (string source)
Init ==
  /\ \E c \in SeedCalls :
       /\ input = c[1]
       /\ args = [is_fn |-> FALSE, store_labels |-> c[2], store_lengths |-> c[3]]
  /\ io = InitIo
  /\ \E o \in Construct(input, args.store_labels, args.store_lengths) :
       /\ o.st = "returned"
       /\ tree = o.t
       /\ lex = o.l
       /\ ub = o.ub
  /\ status = "returned"
  /\ last = NoCall

Idle == status = "returned" /\ last = NoCall

AddChild ==
  /\ Idle
  /\ get_num_nodes(tree) < MaxNodes
  /\ \E parent_node \in NodesOf(tree), a \in ChildArgs :
       /\ tree' = add_child(tree, parent_node, a[1], a[2])
       /\ last' = [op |-> "add_child", parent_node |-> parent_node,
                   ret |-> get_num_nodes(tree)]
  /\ UNCHANGED <<input, args, io, lex, status, ub>>

GetNumLeaves ==
  /\ Idle
  /\ tree' = get_num_leaves(tree)
  /\ last' = [op |-> "get_num_leaves", ret |-> tree'.num_leaves]
  /\ UNCHANGED <<input, args, io, lex, status, ub>>

\* get_num_internal calls get_num_leaves, which may fill the cache
GetNumInternal ==
  /\ Idle
  /\ tree' = get_num_leaves(tree)
  /\ last' = [op |-> "get_num_internal", ret |-> get_num_internal(tree)]
  /\ UNCHANGED <<input, args, io, lex, status, ub>>

Copy ==
  /\ Idle
  /\ last' = [op |-> "copy", ret |-> copy_constructor(tree)]
  /\ UNCHANGED <<input, args, io, lex, tree, status, ub>>

CalcDist ==
  /\ Idle
  /\ \E u, v \in NodesOf(tree) :
       last' = [op |-> "calc_dist", u |-> u, v |-> v, ret |-> calc_dist(tree, u, v)]
  /\ UNCHANGED <<input, args, io, lex, tree, status, ub>>

\* find_mrca on a set of nodes, or on the set of all leaves
FindMrca ==
  /\ Idle
  /\ \E order \in OrdersUpTo(NodesOf(tree), MaxSet) \cup Orders(LeavesOf(tree)) :
       last' = [op |-> "find_mrca", nodes |-> Range(order),
                ret |-> find_mrca(tree, order)]
  /\ UNCHANGED <<input, args, io, lex, tree, status, ub>>

\* length[child] is read for every child of every internal node
ReadsLengthUnchecked(t) == \E n \in NodesOf(t) : ~is_leaf(t, n)

CalcDistanceMatrix ==
  /\ Idle
  /\ \/ /\ has_edge_lengths(tree) \/ ~ReadsLengthUnchecked(tree)
        /\ last' = [op |-> "calc_distance_matrix",
                    ret |-> calc_distance_matrix(tree, 0)]
        /\ UNCHANGED <<status, ub>>
     \/ /\ ~has_edge_lengths(tree) /\ ReadsLengthUnchecked(tree)
        /\ \E oob \in OobValues :
             last' = [op |-> "calc_distance_matrix",
                      ret |-> calc_distance_matrix(tree, oob)]
        /\ ub' = ub \cup {"length"}
        /\ status' \in {"returned", "crashed"}
  /\ UNCHANGED <<input, args, io, lex, tree>>

ExtractSubtree ==
  /\ Idle
  /\ \E node \in NodesOf(tree) :
       last' = [op |-> "extract_subtree", node |-> node,
                ret |-> extract_subtree(tree, node)]
  /\ UNCHANGED <<input, args, io, lex, tree, status, ub>>

IterateLeaves ==
  /\ Idle
  /\ last' = [op |-> "leaves", ret |-> LeavesSequence(tree)]
  /\ UNCHANGED <<input, args, io, lex, tree, status, ub>>

IteratePreorder ==
  /\ Idle
  /\ last' = [op |-> "preorder", ret |-> PreorderSequence(tree)]
  /\ UNCHANGED <<input, args, io, lex, tree, status, ub>>

IteratePostorder ==
  /\ Idle
  /\ last' = [op |-> "postorder", ret |-> PostorderSequence(tree)]
  /\ UNCHANGED <<input, args, io, lex, tree, status, ub>>

IterateLevelorder ==
  /\ Idle
  /\ last' = [op |-> "levelorder", ret |-> LevelorderSequence(tree)]
  /\ UNCHANGED <<input, args, io, lex, tree, status, ub>>

PrintNewick ==
  /\ Idle
  /\ \E node \in NodesOf(tree), include_semicolon \in BOOLEAN :
       last' = [op |-> "print_newick", node |-> node,
                include_semicolon |-> include_semicolon,
                ret |-> get_newick(tree, node, include_semicolon)]
  /\ UNCHANGED <<input, args, io, lex, tree, status, ub>>

CalcTotalBl ==
  /\ Idle
  /\ \E include_internal, include_leaves \in BOOLEAN :
       last' = [op |-> "calc_total_bl", include_internal |-> include_internal,
                include_leaves |-> include_leaves,
                ret |-> calc_total_bl(tree, include_internal, include_leaves)]
  /\ UNCHANGED <<input, args, io, lex, tree, status, ub>>

CalcAvgBl ==
  /\ Idle
  /\ \E include_internal, include_leaves \in BOOLEAN :
       last' = [op |-> "calc_avg_bl", include_internal |-> include_internal,
                include_leaves |-> include_leaves,
                ret |-> calc_avg_bl(tree, include_internal, include_leaves)]
  /\ UNCHANGED <<input, args, io, lex, tree, status, ub>>

\* the caller is done with the result of the call
Return ==
  /\ status = "returned"
  /\ last # NoCall
  /\ last' = NoCall
  /\ UNCHANGED <<input, args, io, lex, tree, status, ub>>

\* the caller goes on with the store extract_subtree or the copy
\* constructor returned
Adopt ==
  /\ status = "returned"
  /\ last.op \in {"extract_subtree", "copy"}
  /\ tree' = last.ret
  /\ last' = NoCall
  /\ UNCHANGED <<input, args, io, lex, status, ub>>

\* the labels and lengths set_label and set_edge_length are called with
LabelArgs == {EMPTY_STRING, <<"a">>}
LengthArgs == {ZERO_LENGTH, 1}

SetLabel ==
  /\ Idle
  /\ \E node \in NodesOf(tree), new_label \in LabelArgs :
       /\ tree' = set_label(tree, node, new_label)
       /\ last' = [op |-> "set_label", node |-> node, value |-> new_label,
                   stored |-> has_labels(tree)]
  /\ UNCHANGED <<input, args, io, lex, status, ub>>

SetEdgeLength ==
  /\ Idle
  /\ \E node \in NodesOf(tree), new_length \in LengthArgs :
       /\ tree' = set_edge_length(tree, node, new_length)
       /\ last' = [op |-> "set_edge_length", node |-> node, value |-> new_length,
                   stored |-> has_edge_lengths(tree)]
  /\ UNCHANGED <<input, args, io, lex, status, ub>>

ClearLabels ==
  /\ Idle
  /\ \E shrink \in BOOLEAN :
       /\ tree' = clear_labels(tree, shrink)
       /\ last' = [op |-> "clear_labels", shrink |-> shrink]
  /\ UNCHANGED <<input, args, io, lex, status, ub>>

ClearEdgeLengths ==
  /\ Idle
  /\ \E shrink \in BOOLEAN :
       /\ tree' = clear_edge_lengths(tree, shrink)
       /\ last' = [op |-> "clear_edge_lengths", shrink |-> shrink]
  /\ UNCHANGED <<input, args, io, lex, status, ub>>

\* the operations that build and edit a store
NextEdit ==
  \/ AddChild \/ SetLabel \/ SetEdgeLength \/ ClearLabels \/ ClearEdgeLengths
  \/ ExtractSubtree \/ Copy \/ Return \/ Adopt

SpecEdit == Init /\ [][NextEdit]_vars

Next ==
  \/ AddChild \/ GetNumLeaves \/ GetNumInternal \/ Copy \/ CalcDist \/ FindMrca
  \/ CalcDistanceMatrix \/ ExtractSubtree \/ IterateLeaves \/ IteratePreorder
  \/ IteratePostorder \/ IterateLevelorder \/ PrintNewick \/ CalcTotalBl
  \/ CalcAvgBl \/ Return \/ Adopt

Spec == Init /\ [][Next]_vars


\* ===================================================== what is claimed
\* The notions the statements are about, defined from the tree alone.
RECURSIVE AncestorsOrSelf(_, _)
AncestorsOrSelf(t, n) ==
  IF t.parent[n + 1] = NULL_NODE THEN {n}
  ELSE {n} \cup AncestorsOrSelf(t, t.parent[n + 1])

RECURSIVE RootDist(_, _)
RootDist(t, n) ==
  IF t.parent[n + 1] = NULL_NODE THEN 0
  ELSE get_edge_length(t, n) + RootDist(t, t.parent[n + 1])

CommonAncestors(t, S) == {a \in NodesOf(t) : \A n \in S : a \in AncestorsOrSelf(t, n)}

\* the deepest node that is an ancestor of, or equal to, every node of S
Mrca(t, S) ==
  CHOOSE m \in CommonAncestors(t, S) :
    \A a \in CommonAncestors(t, S) : a \in AncestorsOrSelf(t, m)

\* the sum of the edge lengths on the path between u and v
PathDist(t, u, v) ==
  RootDist(t, u) + RootDist(t, v) - 2 * RootDist(t, Mrca(t, {u, v}))

RECURSIVE Shape(_, _)
Shape(t, n) ==
  [label |-> get_label(t, n), length |-> get_edge_length(t, n),
   kids |-> [k \in 1 .. Len(t.children[n + 1]) |-> Shape(t, t.children[n + 1][k])]]

SubtreeNodes(t, n) == {d \in NodesOf(t) : n \in AncestorsOrSelf(t, d)}

\* C1: calc_dist(u, v) is the sum of the edge lengths on the path between u
\* and v, for every pair of nodes: 0 for u = v, ancestors any number of
\* edges away and the root included.
C1_CalcDistIsPathLength ==
  (status = "returned" /\ last.op = "calc_dist")
    => last.ret = PathDist(tree, last.u, last.v)

\* C3: find_mrca(S) returns the deepest node that is an ancestor of or equal
\* to every member of S, whatever the order the members are enqueued in.
C3_FindMrcaIsDeepestCommonAncestor ==
  (status = "returned" /\ last.op = "find_mrca")
    => last.ret = Mrca(tree, last.nodes)

\* two nodes that are not the root, neither an ancestor of the other, met
\* below the root
C3_Witness ==
  /\ status = "returned" /\ last.op = "find_mrca"
  /\ Cardinality(last.nodes) = 2
  /\ last.ret \notin last.nodes
  /\ last.ret # ROOT_NODE

\* C4 as stated: find_mrca of the set of all leaves is the root.
C4_LeavesMrcaIsRoot ==
  (status = "returned" /\ last.op = "find_mrca" /\ last.nodes = LeavesOf(tree))
    => last.ret = ROOT_NODE

\* C4 as amended: find_mrca of the set of all leaves is the root exactly
\* when the root does not have exactly one child; with a single child it is
\* the deepest node above every leaf, a proper descendant of the root.
C4_LeavesMrcaIsRootUnlessUnary ==
  (status = "returned" /\ last.op = "find_mrca" /\ last.nodes = LeavesOf(tree))
    => /\ (last.ret = ROOT_NODE) <=> (Len(tree.children[ROOT_NODE + 1]) # 1)
       /\ last.ret = Mrca(tree, LeavesOf(tree))

C4_Witness ==
  /\ status = "returned" /\ last.op = "find_mrca"
  /\ last.nodes = LeavesOf(tree)
  /\ Cardinality(last.nodes) >= 2
  /\ last.ret = ROOT_NODE

\* C5: with edge lengths stored, calc_distance_matrix returns L*(L-1)/2
\* entries, one for every unordered pair of distinct leaves, whose distance
\* is the length of the path between the two (what calc_dist gives).
C5_DistanceMatrix ==
  (status = "returned" /\ last.op = "calc_distance_matrix" /\ has_edge_lengths(tree))
    => LET dm == last.ret
           L == Cardinality(LeavesOf(tree))
       IN /\ BagCardinality(dm) = (L * (L - 1)) \div 2
          /\ \A e \in BagToSet(dm) :
               /\ e[1] \in LeavesOf(tree) /\ e[2] \in LeavesOf(tree) /\ e[1] # e[2]
               /\ e[3] = PathDist(tree, e[1], e[2])
               /\ e[3] = calc_dist(tree, e[1], e[2])
          /\ \A a, b \in LeavesOf(tree) :
               a < b => Cardinality({e \in BagToSet(dm) : {e[1], e[2]} = {a, b}}) = 1

C5_Witness ==
  /\ status = "returned" /\ last.op = "calc_distance_matrix"
  /\ has_edge_lengths(tree)
  /\ BagCardinality(last.ret) = 3
  /\ \E e \in BagToSet(last.ret) : e[3] >= 3

\* C6: extract_subtree(n) is a deep copy of the subtree rooted at n: as many
\* nodes, node 0 for n, the same children in the same order, the same label
\* and edge length on every node, the same Newick text.
C6_ExtractSubtreeIsDeepCopy ==
  (status = "returned" /\ last.op = "extract_subtree")
    => LET r == last.ret
       IN /\ get_num_nodes(r) = Cardinality(SubtreeNodes(tree, last.node))
          /\ r.parent[ROOT_NODE + 1] = NULL_NODE
          /\ Len(r.children) = Len(r.parent)
          /\ \A c \in NodesOf(r) \ {ROOT_NODE} :
               /\ r.parent[c + 1] \in NodesOf(r)
               /\ Cardinality({k \in DOMAIN r.children[r.parent[c + 1] + 1] :
                                 r.children[r.parent[c + 1] + 1][k] = c}) = 1
          /\ has_labels(r) = has_labels(tree)
          /\ has_edge_lengths(r) = has_edge_lengths(tree)
          /\ Shape(r, ROOT_NODE) = Shape(tree, last.node)
          /\ get_newick(r, ROOT_NODE, TRUE) = get_newick(tree, last.node, TRUE)

C6_Witness ==
  /\ status = "returned" /\ last.op = "extract_subtree"
  /\ last.node # ROOT_NODE
  /\ get_num_nodes(last.ret) >= 3
  /\ \E n \in NodesOf(last.ret) : get_edge_length(last.ret, n) # 0
  /\ \E n \in NodesOf(last.ret) : get_label(last.ret, n) # EMPTY_STRING

\* C10: iterating from leaves_begin() to leaves_end() yields exactly the
\* nodes without children, each once, in ascending order; as many as
\* get_num_leaves() says.
C10_LeavesIteration ==
  (status = "returned" /\ last.op = "leaves")
    => /\ Range(last.ret) = LeavesOf(tree)
       /\ \A j, k \in DOMAIN last.ret : j < k => last.ret[j] < last.ret[k]
       /\ Len(last.ret) = get_num_leaves(tree).num_leaves


\* ------------------------------------------ the grammar of section 4.1
\* A recogniser for inputs that are a tree of the supported grammar, written
\* without blanks and with comments only after a subtree.  XEnds(s, p) is
\* the set of positions an X starting at position p of s can end before.
LabelChars == {"a", "b", "x", "A", "B", "C", "D"} \cup {Digits[d] : d \in 1 .. 10}

UnquotedEnds(s, p) ==
  {e \in (p + 1) .. (Len(s) + 1) : \A k \in p .. (e - 1) : s[k] \in LabelChars}

QuotedEnds(s, p) ==
  IF p <= Len(s) /\ s[p] \in {"'", "\""}
  THEN {j + 1 : j \in {j \in (p + 2) .. Len(s) :
                         s[j] = s[p] /\ \A k \in (p + 1) .. (j - 1) : s[k] # s[p]}}
  ELSE {}

LengthEnds(s, p) ==
  IF p <= Len(s) /\ s[p] = ":"
  THEN {e \in (p + 2) .. (Len(s) + 1) : \A k \in (p + 1) .. (e - 1) : IsDigit(s[k])}
  ELSE {}

CommentEnds(s, p) ==
  IF p <= Len(s) /\ s[p] = "["
  THEN {j + 1 : j \in {j \in (p + 1) .. Len(s) :
                         s[j] = "]" /\ \A k \in (p + 1) .. (j - 1) : s[k] # "]"}}
  ELSE {}

\* [label] [':' length] [comment]
TailEnds(s, p) ==
  LET afterLabel == {p} \cup UnquotedEnds(s, p) \cup QuotedEnds(s, p)
      afterLength == afterLabel \cup UNION {LengthEnds(s, q) : q \in afterLabel}
  IN afterLength \cup UNION {CommentEnds(s, q) : q \in afterLength}

RECURSIVE SubtreeEnds(_, _)
RECURSIVE ListEnds(_, _)
\* subtree (',' subtree)* ')'
ListEnds(s, p) ==
  UNION {IF q <= Len(s) /\ s[q] = "," THEN ListEnds(s, q + 1)
         ELSE IF q <= Len(s) /\ s[q] = ")" THEN {q + 1}
         ELSE {} : q \in SubtreeEnds(s, p)}

SubtreeEnds(s, p) ==
  IF p <= Len(s) /\ s[p] = "("
  THEN UNION {TailEnds(s, q) : q \in ListEnds(s, p + 1)}
  ELSE TailEnds(s, p)

\* tree := subtree ';'
IsTree(s) ==
  /\ s # << >>
  /\ s[Len(s)] = ";"
  /\ Len(s) \in SubtreeEnds(s, 1)

\* --------------------------------------------- claims on the constructor
Terminal == status \in {"returned", "error", "crashed"}

\* the number of bytes of the input handled when the constructor returned:
\* the position of the byte at buf[i]
ConsumedLen == io.input_i - io.bytes_read + io.i + 1

SameTree(a, b) ==
  /\ get_num_nodes(a) = get_num_nodes(b)
  /\ a.parent = b.parent
  /\ a.children = b.children
  /\ \A n \in NodesOf(a) :
       /\ get_edge_length(a, n) = get_edge_length(b, n)
       /\ is_leaf(a, n) => get_label(a, n) = get_label(b, n)

\* C2: for a valid Newick string, parsing it, rendering the store with
\* get_newick and parsing the rendered text again gives the same tree: as
\* many nodes, the same parents and children in the same order, the same
\* leaf labels and edge lengths.
C2_NewickRoundTrip ==
  (status = "returned" /\ last.op = "get_newick" /\ IsTree(input))
    => \A o \in Construct(last.ret, args.store_labels, args.store_lengths) :
         o.st = "returned" /\ SameTree(o.t, tree)

\* C7: a ')' read at the root is a structural error: the current node never
\* becomes the sentinel, no vector is indexed by the sentinel, and ")A;"
\* ends in the parse error and nothing else.
C7_CloseAtRootIsError ==
  /\ lex.curr_node # NULL_NODE
  /\ "vector" \notin ub
  /\ (input = <<")", "A", ";">> /\ Terminal) => status = "error"

\* C8 as stated: no tree is returned for an input that has content after
\* the terminating ';'.
C8_TrailingContentRejected ==
  status = "returned" => ConsumedLen = Len(input)

TrailingExamples ==
  { <<"(", "A", ",", "B", ")", ";", "x">>,
    <<"(", "A", ",", "B", ")", ";", "(", "C", ",", "D", ")", ";">> }

ReadFailed == io.bytes_read = SizeDec(0)

\* C8 as amended: construction returns at the first ';' read at the root
\* outside a token, whatever follows it: the tree returned is the tree of
\* the input cut after that ';', and "(A,B);x" and "(A,B);(C,D);" both give
\* the three nodes of "(A,B);".
C8_TrailingContentIgnored ==
  /\ status = "returned"
       => \E o \in Construct(SubSeq(input, 1, ConsumedLen), args.store_labels,
                             args.store_lengths) :
            o.st = "returned" /\ o.t = tree /\ o.l = lex
  /\ (input \in TrailingExamples /\ Terminal /\ ~ReadFailed)
       => /\ status = "returned"
          /\ ConsumedLen = 6
          /\ get_num_nodes(tree) = 3
          /\ tree.children = << <<1, 2>>, << >>, << >> >>

C8_Witness ==
  /\ status = "returned"
  /\ input \in TrailingExamples
  /\ ConsumedLen < Len(input)

C9Examples ==
  { << >>,
    <<"(", "A", ",", "B">>,
    <<"A", ",", "B", ")", ";">>,
    <<"(", "A", ",", "B", ";">> }

\* C9: construction ends in the parse error when the input ends before a
\* terminating ';' was read (here: the input has no ';' at all, or is "(A,B"
\* or empty), for "A,B);" (a ',' at the root) and for "(A,B;" (a ';' below
\* the root).
C9_ParseErrors ==
  (Terminal /\ (input \in C9Examples \/ \A k \in DOMAIN input : input[k] # ";"))
    => status = "error"

\* ------------------------------------------------- claims on the store
InternalOf(t) == NodesOf(t) \ LeavesOf(t)

\* the stores a state holds: the current one and one just returned
StoresHeld ==
  {tree} \cup (IF last.op \in {"extract_subtree", "copy"} THEN {last.ret} ELSE {})

\* C11: after any sequence of construction, add_child, get_num_leaves,
\* get_num_internal, copy and extract_subtree, get_num_leaves() is the
\* number of nodes without children and get_num_internal() the number of
\* nodes with a child (their sum is get_num_nodes()), and a cached leaf
\* count is the number of leaves, also after add_child.
C11_LeafCountStaysCorrect ==
  /\ \A t \in StoresHeld :
       /\ t.num_leaves \in {0, Cardinality(LeavesOf(t))}
       /\ get_num_leaves(t).num_leaves = Cardinality(LeavesOf(t))
       /\ get_num_internal(t) = Cardinality(InternalOf(t))
       /\ get_num_nodes(t) = get_num_leaves(t).num_leaves + get_num_internal(t)
  /\ last.op = "get_num_leaves" => last.ret = Cardinality(LeavesOf(tree))
  /\ last.op = "get_num_internal" => last.ret = Cardinality(InternalOf(tree))

\* add_child on an internal node of a store whose leaf count was cached
C11_Witness ==
  /\ status = "returned" /\ last.op = "add_child"
  /\ tree.num_leaves >= 2
  /\ Len(tree.children[last.parent_node + 1]) >= 2
\* C12: in every store reached (parsed, grown by add_child, returned by
\* extract_subtree or the copy constructor) parent[0] is the sentinel, every
\* other node's parent has a smaller id, and children[p] lists exactly the
\* nodes whose parent is p, each once, in ascending id order.
C12_ParentChildrenConsistent ==
  status = "returned" => \A t \in StoresHeld :
    /\ get_num_nodes(t) >= 1
    /\ Len(t.children) = Len(t.parent)
    /\ t.parent[ROOT_NODE + 1] = NULL_NODE
    /\ \A n \in NodesOf(t) \ {ROOT_NODE} : t.parent[n + 1] < n
    /\ \A p \in NodesOf(t) :
         LET ch == t.children[p + 1]
         IN /\ Range(ch) = {n \in NodesOf(t) : t.parent[n + 1] = p}
            /\ \A j, k \in DOMAIN ch : j < k => ch[j] < ch[k]

\* a store returned by extract_subtree for a node below the root that has
\* two children
C12_Witness ==
  /\ status = "returned" /\ last.op = "extract_subtree"
  /\ last.node # ROOT_NODE
  /\ Len(last.ret.children[ROOT_NODE + 1]) >= 2
  /\ C12_ParentChildrenConsistent
\* C13: in every store reached (parsed with any storage flags, grown by
\* add_child, changed by set_label, set_edge_length, clear_labels or
\* clear_edge_lengths, or returned by extract_subtree) the label vector and
\* the length vector are each empty or hold one slot per node; a node never
\* given a value holds the default, and set_label / set_edge_length on a
\* store without storage give every other node the default.
C13_SlotsAlignedWithNodes ==
  /\ \A t \in StoresHeld :
       /\ Len(t.label) \in {0, get_num_nodes(t)}
       /\ Len(t.length) \in {0, get_num_nodes(t)}
  /\ (last.op = "set_label" /\ ~last.stored)
       => \A n \in NodesOf(tree) :
            get_label(tree, n) = IF n = last.node THEN last.value ELSE EMPTY_STRING
  /\ (last.op = "set_edge_length" /\ ~last.stored)
       => \A n \in NodesOf(tree) :
            get_edge_length(tree, n) = IF n = last.node THEN last.value ELSE ZERO_LENGTH
\* the nodes strictly below n
Descendants(t, n) == SubtreeNodes(t, n) \ {n}

\* C14: preorder iteration yields every node once, in ascending id order
\* 0 .. N-1, each node before all of its descendants; postorder iteration
\* yields every node once, in descending id order N-1 .. 0, each node after
\* all of its descendants, and ends when node 0 is decremented to the
\* sentinel.
C14_PreorderPostorder ==
  LET N == get_num_nodes(tree)
  IN /\ (status = "returned" /\ last.op = "preorder")
          => /\ last.ret = [k \in 1 .. N |-> k - 1]
             /\ \A j, k \in DOMAIN last.ret :
                  last.ret[k] \in Descendants(tree, last.ret[j]) => j < k
     /\ (status = "returned" /\ last.op = "postorder")
          => /\ last.ret = [k \in 1 .. N |-> N - k]
             /\ \A j, k \in DOMAIN last.ret :
                  last.ret[k] \in Descendants(tree, last.ret[j]) => k < j
             /\ NodeDec(last.ret[N]) = postorder_end

\* postorder iteration of a store in which some node has two children
C14_Witness ==
  /\ status = "returned" /\ last.op = "postorder"
  /\ Len(last.ret) >= 4
  /\ \E p \in NodesOf(tree) : Len(tree.children[p + 1]) >= 2
  /\ last.ret[1] = 3
\* the number of edges between n and the root
Depth(t, n) == Cardinality(AncestorsOrSelf(t, n)) - 1

\* the position of node n in the sequence q, and among its siblings
PosIn(q, n) == CHOOSE k \in DOMAIN q : q[k] = n
SiblingIndex(t, n) == PosIn(t.children[t.parent[n + 1] + 1], n)

\* C15: level-order iteration yields every node once, the root first, with
\* depth non-decreasing along the sequence, a node's parent before the
\* node, and nodes of equal depth in the order of their parents and then in
\* children order.
C15_Levelorder ==
  (status = "returned" /\ last.op = "levelorder")
    => LET q == last.ret
       IN /\ Len(q) = get_num_nodes(tree)
          /\ Range(q) = NodesOf(tree)
          /\ q[1] = ROOT_NODE
          /\ \A j, k \in DOMAIN q : j < k => Depth(tree, q[j]) <= Depth(tree, q[k])
          /\ \A n \in NodesOf(tree) \ {ROOT_NODE} :
               PosIn(q, tree.parent[n + 1]) < PosIn(q, n)
          /\ \A x, y \in NodesOf(tree) \ {ROOT_NODE} :
               (x # y /\ Depth(tree, x) = Depth(tree, y))
                 => LET px == tree.parent[x + 1]
                        py == tree.parent[y + 1]
                    IN (PosIn(q, x) < PosIn(q, y))
                         <=> \/ PosIn(q, px) < PosIn(q, py)
                             \/ px = py /\ SiblingIndex(tree, x) < SiblingIndex(tree, y)

\* level-order iteration of a store whose breadth-first order is not the
\* id order: a node is yielded before a node with a smaller id
C15_Witness ==
  /\ status = "returned" /\ last.op = "levelorder"
  /\ Len(last.ret) >= 4
  /\ \E k \in 1 .. (Len(last.ret) - 1) : last.ret[k] > last.ret[k + 1]
\* C16: when the store is constructed from a file, the descriptor opened for
\* parsing is closed by the time construction ends, whether it returns a
\* tree or fails.
C16_FileHandleReleased ==
  (args.is_fn /\ status \in {"returned", "error"}) => ~io.open
\* the Newick text of the subtree of n, written from the grammar: the
\* children's texts joined by commas in parentheses, the label, the length;
\* omit_default says whether a zero length is left out
RECURSIVE JoinWith(_, _)
JoinWith(parts, sep) ==
  IF parts = << >> THEN << >>
  ELSE IF Len(parts) = 1 THEN parts[1]
  ELSE parts[1] \o sep \o JoinWith(Tail(parts), sep)

RECURSIVE NewickText(_, _, _)
NewickText(t, n, omit_default) ==
  LET kids == t.children[n + 1]
      inner == IF kids = << >> THEN << >>
               ELSE <<"(">>
                    \o JoinWith([k \in DOMAIN kids |-> NewickText(t, kids[k], omit_default)],
                                <<",">>)
                    \o <<")">>
      len == IF ~has_edge_lengths(t) \/ (omit_default /\ get_edge_length(t, n) = 0)
             THEN << >>
             ELSE <<":">> \o FormatLength(get_edge_length(t, n))
  IN inner \o get_label(t, n) \o len

CountChar(q, c) == Cardinality({k \in DOMAIN q : q[k] = c})

\* C17 as stated: ':' and the edge length are rendered only when lengths
\* are stored and the node's length is not zero.
C17_PrintNewickOmitsDefaultLength ==
  (status = "returned" /\ last.op = "print_newick")
    => last.ret = NewickText(tree, last.node, TRUE)
                  \o (IF last.include_semicolon THEN <<";">> ELSE << >>)

\* C17 as amended: print_newick renders the children comma-separated in
\* parentheses when the node is internal, then the label if labels are
\* stored, then ':' and the edge length whenever lengths are stored (a zero
\* length is printed as 0), and ';' at the very end exactly when
\* include_semicolon is true.
C17_PrintNewickAlwaysPrintsLength ==
  (status = "returned" /\ last.op = "print_newick")
    => LET sub == SubtreeNodes(tree, last.node)
           text == last.ret
       IN /\ text = NewickText(tree, last.node, FALSE)
                      \o (IF last.include_semicolon THEN <<";">> ELSE << >>)
          /\ CountChar(text, ";") = IF last.include_semicolon THEN 1 ELSE 0
          /\ last.include_semicolon => text[Len(text)] = ";"
          /\ CountChar(text, ":") = IF has_edge_lengths(tree) THEN Cardinality(sub) ELSE 0
          /\ CountChar(text, "(") = Cardinality(sub \cap InternalOf(tree))
          /\ CountChar(text, ")") = CountChar(text, "(")
          /\ CountChar(text, ",")
               = Cardinality(sub) - 1 - Cardinality(sub \cap InternalOf(tree))

\* an internal node of a store with lengths printed without the semicolon,
\* a node with a zero length in its subtree
C17_Witness ==
  /\ status = "returned" /\ last.op = "print_newick"
  /\ ~last.include_semicolon
  /\ ~is_leaf(tree, last.node)
  /\ has_edge_lengths(tree) /\ has_labels(tree)
  /\ \E n \in SubtreeNodes(tree, last.node) : get_edge_length(tree, n) = 0
  /\ \E n \in SubtreeNodes(tree, last.node) : get_edge_length(tree, n) # 0
\* the input without its comments: every '[' up to the next ']' (or to the
\* end) is removed
RECURSIVE StripComments(_, _)
StripComments(s, in_comment) ==
  IF s = << >> THEN << >>
  ELSE IF in_comment THEN StripComments(Tail(s), Head(s) # "]")
  ELSE IF Head(s) = "[" THEN StripComments(Tail(s), TRUE)
  ELSE <<Head(s)>> \o StripComments(Tail(s), FALSE)

\* every '[' of s is closed by a ']' and no ']' stands outside a comment
RECURSIVE CommentsClosed(_, _)
CommentsClosed(s, in_comment) ==
  IF s = << >> THEN ~in_comment
  ELSE IF in_comment THEN CommentsClosed(Tail(s), Head(s) # "]")
  ELSE IF Head(s) = "]" THEN FALSE
  ELSE CommentsClosed(Tail(s), Head(s) = "[")

HasNoQuote(s) == \A k \in DOMAIN s : s[k] \notin {"'", "\""}

\* C18: a [...] comment outside a quoted label is skipped: for an input
\* without quotes that holds closed comments and is a tree once they are
\* removed, the store constructed is the store constructed from the input
\* with the comments removed.
C18_CommentsSkipped ==
  LET plain == {o \in Construct(StripComments(input, FALSE), args.store_labels,
                                args.store_lengths) : o.st = "returned"}
  IN (/\ status = "returned"
      /\ HasNoQuote(input)
      /\ CommentsClosed(input, FALSE)
      /\ \E k \in DOMAIN input : input[k] = "["
      /\ plain # {})
       => \E o \in plain : o.t = tree
\* C19: unquoted blanks around a label are ignored: no label stored by the
\* constructor for an input without quotes and comments starts or ends
\* with a blank, and "( A ,B );" stores the labels A and B.
C19_BlanksAroundLabelIgnored ==
  (/\ status = "returned"
   /\ args.store_labels
   /\ \A k \in DOMAIN input : input[k] \notin {"'", "\"", "[", "]"})
    => /\ \A n \in NodesOf(tree) :
            LET lab == get_label(tree, n)
            IN lab # EMPTY_STRING => (lab[1] # " " /\ lab[Len(lab)] # " ")
       /\ input = <<"(", " ", "A", " ", ",", "B", " ", ")", ";">>
            => (get_label(tree, 1) = <<"A">> /\ get_label(tree, 2) = <<"B">>)
\* ------------------------------------- the tokens of a grammar input
\* The text of an input of the grammar cut at its structural characters:
\* tails holds the text between a structural character and the next ',',
\* ')' or ';' (the label and length of the subtree that ends there, in the
\* order the subtrees end), skel the structural characters themselves.
\* Quoted text is taken literally, comments are left out.
RECURSIVE SplitTails(_, _, _, _)
SplitTails(s, mode, cur, acc) ==
  IF s = << >> THEN acc
  ELSE LET c == Head(s)
           r == Tail(s)
       IN IF mode = "comment"
          THEN SplitTails(r, IF c = "]" THEN "plain" ELSE mode, cur, acc)
          ELSE IF mode # "plain"
          THEN SplitTails(r, IF c = mode THEN "plain" ELSE mode, Append(cur, c), acc)
          ELSE IF c \in {",", ")", ";"}
          THEN SplitTails(r, mode, << >>,
                          [tails |-> Append(acc.tails, cur), skel |-> Append(acc.skel, c)])
          ELSE IF c = "("
          THEN SplitTails(r, mode, cur, [acc EXCEPT !.skel = Append(@, c)])
          ELSE IF c = "["
          THEN SplitTails(r, "comment", cur, acc)
          ELSE IF c \in {"'", "\""}
          THEN SplitTails(r, c, Append(cur, c), acc)
          ELSE SplitTails(r, mode, Append(cur, c), acc)

TokensOf(s) == SplitTails(s, "plain", << >>, [tails |-> << >>, skel |-> << >>])

FirstIndex(q, from, c) ==
  IF \E k \in from .. Len(q) : q[k] = c
  THEN CHOOSE k \in from .. Len(q) : q[k] = c /\ \A j \in from .. (k - 1) : q[j] # c
  ELSE Len(q) + 1

\* where the label of a tail ends: at the closing quote, or before the ':'
LabelEnd(seg) ==
  IF seg # << >> /\ seg[1] \in {"'", "\""} THEN FirstIndex(seg, 2, seg[1])
  ELSE FirstIndex(seg, 1, ":") - 1

\* the label a tail denotes: the quoted text with its quotes, without them,
\* or with the closing quote only (the stored form of a quoted label), or
\* the unquoted text
TailLabels(seg) ==
  IF seg # << >> /\ seg[1] \in {"'", "\""}
  THEN {SubSeq(seg, 1, LabelEnd(seg)), SubSeq(seg, 2, LabelEnd(seg) - 1),
        SubSeq(seg, 2, LabelEnd(seg))}
  ELSE {SubSeq(seg, 1, LabelEnd(seg))}

\* the length a tail denotes: the number after the ':', zero without one
TailLength(seg) ==
  LET rest == SubSeq(seg, LabelEnd(seg) + 1, Len(seg))
  IN IF rest = << >> THEN ZERO_LENGTH ELSE AtofDigits(Tail(rest), 0)

\* the nodes of the subtree of n, every node after its children
RECURSIVE PostDfs(_, _)
PostDfs(t, n) ==
  JoinWith([k \in DOMAIN t.children[n + 1] |-> PostDfs(t, t.children[n + 1][k])], << >>)
  \o <<n>>

Topology(t) == [t EXCEPT !.label = << >>, !.length = << >>]
\* C20: for every input of the grammar construction succeeds; the store has
\* one node per subtree (the root and one per structural '(' and ','), its
\* parents and children mirror the nesting, and every node carries the
\* label and the length written after it (empty / zero when absent);
\* "(A:1,B:2)C:0;" and "(,);" give the stores of the examples.
C20_GrammarInputsBuildTheirTree ==
  (Terminal /\ ~ReadFailed /\ IsTree(input))
    => /\ status = "returned"
       /\ LET tok == TokensOf(input)
              post == PostDfs(tree, ROOT_NODE)
          IN /\ get_num_nodes(tree) = Len(tok.tails)
             /\ get_num_nodes(tree)
                  = 1 + CountChar(tok.skel, "(") + CountChar(tok.skel, ",")
             /\ NewickText(Topology(tree), ROOT_NODE, FALSE) \o <<";">> = tok.skel
             /\ has_labels(tree) = args.store_labels
             /\ has_edge_lengths(tree) = args.store_lengths
             /\ \A k \in DOMAIN post :
                  /\ args.store_labels
                       => get_label(tree, post[k]) \in TailLabels(tok.tails[k])
                  /\ args.store_lengths
                       => get_edge_length(tree, post[k]) = TailLength(tok.tails[k])
       /\ (/\ input = <<"(", "A", ":", "1", ",", "B", ":", "2", ")", "C", ":", "0", ";">>
           /\ args.store_labels /\ args.store_lengths)
            => /\ get_num_nodes(tree) = 3
               /\ tree.children[ROOT_NODE + 1] = <<1, 2>>
               /\ get_label(tree, 0) = <<"C">>
               /\ get_label(tree, 1) = <<"A">> /\ get_edge_length(tree, 1) = 1
               /\ get_label(tree, 2) = <<"B">> /\ get_edge_length(tree, 2) = 2
               /\ calc_dist(tree, 1, 2) = 3
               /\ calc_total_bl(tree, TRUE, TRUE) = 3
               /\ LeavesSequence(tree) = <<1, 2>>
               /\ \A order \in Orders({1, 2}) : find_mrca(tree, order) = ROOT_NODE
       /\ (input = <<"(", ",", ")", ";">> /\ args.store_labels)
            => /\ get_num_nodes(tree) = 3
               /\ get_num_leaves(tree).num_leaves = 2
               /\ get_label(tree, 1) = EMPTY_STRING
               /\ get_label(tree, 2) = EMPTY_STRING
\* the sum of the edge lengths of the nodes of S
RECURSIVE LengthSum(_, _)
LengthSum(t, S) ==
  IF S = {} THEN 0
  ELSE LET n == CHOOSE x \in S : TRUE
       IN get_edge_length(t, n) + LengthSum(t, S \ {n})

\* the nodes the flags select
Selected(t, include_internal, include_leaves) ==
  (IF include_leaves THEN LeavesOf(t) ELSE {})
  \cup (IF include_internal THEN InternalOf(t) ELSE {})

\* C21: calc_total_bl(include_internal, include_leaves) is the sum of the
\* edge lengths of exactly the nodes the flags select (leaves; nodes with
\* children, the root included), 0 with both flags false or without stored
\* lengths, and calc_total_bl(true, true) is the sum of
\* calc_total_bl(true, false) and calc_total_bl(false, true).
C21_TotalBranchLength ==
  (status = "returned" /\ last.op = "calc_total_bl")
    => /\ last.ret = LengthSum(tree, Selected(tree, last.include_internal,
                                               last.include_leaves))
       /\ (~last.include_internal /\ ~last.include_leaves) => last.ret = 0
       /\ ~has_edge_lengths(tree) => last.ret = 0
       /\ calc_total_bl(tree, TRUE, TRUE)
            = calc_total_bl(tree, TRUE, FALSE) + calc_total_bl(tree, FALSE, TRUE)

\* the internal nodes alone, the root with a length of its own among them
C21_Witness ==
  /\ status = "returned" /\ last.op = "calc_total_bl"
  /\ last.include_internal /\ ~last.include_leaves
  /\ get_edge_length(tree, ROOT_NODE) # 0
  /\ Cardinality(InternalOf(tree)) >= 2
  /\ last.ret >= 2

\* C26: with a flag true, calc_avg_bl is calc_total_bl for the same flags
\* divided by the number of selected nodes, which is not zero when the
\* division is made (also for a single-node tree); with both flags false
\* it returns 0.
C26_AverageBranchLength ==
  (status = "returned" /\ last.op = "calc_avg_bl")
    => /\ last.ret.divided <=> (last.include_internal \/ last.include_leaves)
       /\ last.ret.tot = calc_total_bl(tree, last.include_internal, last.include_leaves)
       /\ last.ret.divided
            => /\ last.ret.count = Cardinality(Selected(tree, last.include_internal,
                                                         last.include_leaves))
               /\ last.ret.count # 0
\* the nodes of the subtree of n depth first, every node before its
\* children, children in stored order
RECURSIVE PreDfs(_, _)
PreDfs(t, n) ==
  <<n>>
  \o JoinWith([k \in DOMAIN t.children[n + 1] |-> PreDfs(t, t.children[n + 1][k])], << >>)

C23_RefillSplitInvisible ==
  (Terminal /\ ~ReadFailed)
    => \E o \in Construct(input, args.store_labels, args.store_lengths) :
         o.st = status /\ o.t = tree /\ o.l = lex /\ o.ub = ub

\* a file whose unquoted label ends exactly at the end of a buffer: the
\* delimiter after it is the first byte of the next buffer and is re-read
C23_Witness ==
  /\ status = "returned"
  /\ args.is_fn
  /\ args.store_labels
  /\ \E k \in 1 .. Len(input) :
       /\ k % IO_BUFFER_SIZE = 0
       /\ k < Len(input)
       /\ input[k] \in LabelChars
       /\ input[k + 1] \in {",", ")", ";"}
       /\ \A j \in 1 .. k : input[j] \notin {"'", "\"", "[", ":", ";"}
       /\ \E n \in NodesOf(tree) : tree.label[n + 1] # << >>

\* the constructor is about to handle the byte buf[i]
Handling == status = "parsing" /\ io.i < io.bytes_read
CurByte == io.buf[io.i + 1]

\* C24: a '[' met outside a label and outside a comment starts a comment and
\* changes nothing else; every byte inside a comment changes neither the
\* store nor the current node nor the pending token, and only ']' ends the
\* comment, leaving the parser in the state the '[' interrupted (a length
\* token goes on: "a:1[a]1;" gives the root the length 11).
C24_CommentKeepsState ==
  /\ [][ /\ (Handling /\ lex.parse_comment)
            => /\ tree' = tree
               /\ status' = "parsing"
               /\ ub' = ub
               /\ lex' = [lex EXCEPT !.parse_comment = (CurByte # "]")]
         /\ (Handling /\ ~lex.parse_comment /\ ~lex.parse_label /\ CurByte = "[")
            => /\ tree' = tree
               /\ status' = "parsing"
               /\ lex' = [lex EXCEPT !.parse_comment = TRUE] ]_vars
  /\ []((input = <<"a", ":", "1", "[", "a", "]", "1", ";">> /\ Terminal /\ ~ReadFailed)
         => /\ status = "returned"
            /\ get_num_nodes(tree) = 1
            /\ args.store_lengths => tree.length = <<11>>
            /\ args.store_labels => tree.label = << <<"a">> >>)

C24_Witness ==
  /\ status = "returned"
  /\ input = <<"a", ":", "1", "[", "a", "]", "1", ";">>
  /\ args.store_lengths
  /\ tree.length = <<11>>

\* the parser is inside a quoted label / outside every token
InQuoted ==
  /\ ~lex.parse_comment /\ ~lex.parse_length /\ lex.parse_label
  /\ lex.parse_label_single \/ lex.parse_label_double
InNormal == ~lex.parse_comment /\ ~lex.parse_length /\ ~lex.parse_label
ClosesQuote(c) ==
  \/ c = "'" /\ lex.parse_label_single
  \/ c = "\"" /\ lex.parse_label_double

\* C25: a quote met outside every token opens a quoted label and is not
\* stored; every byte after it, delimiters, '[', blanks and the other quote
\* included, is appended to the pending label and changes nothing else,
\* until the matching quote, which is appended too: the pending text, closing
\* quote last, becomes the label of the current node and the parser is back
\* outside every token.  "('a,',b);" gives the first leaf the label a,' .
C25_QuotedLabelLiteral ==
  /\ [][ /\ (Handling /\ InNormal /\ CurByte \in {"'", "\""})
            => /\ status' = "parsing" /\ tree' = tree
               /\ lex'.parse_label
               /\ lex'.parse_label_single = (CurByte = "'")
               /\ lex'.parse_label_double = (CurByte = "\"")
               /\ lex'.curr_node = lex.curr_node
               /\ args.store_labels => lex'.str_buf = << >>
         /\ (Handling /\ InQuoted /\ status' = "parsing")
            => /\ lex'.curr_node = lex.curr_node
               /\ ~lex'.parse_comment /\ ~lex'.parse_length
               /\ args.store_labels => lex'.str_buf = Append(lex.str_buf, CurByte)
               /\ io'.i = io.i + 1
               /\ IF ClosesQuote(CurByte)
                  THEN /\ ~lex'.parse_label
                       /\ ~lex'.parse_label_single /\ ~lex'.parse_label_double
                       /\ (args.store_labels /\ InBounds(tree, lex.curr_node))
                            => tree' = [tree EXCEPT !.label[lex.curr_node + 1] =
                                                      Append(lex.str_buf, CurByte)]
                       /\ ~args.store_labels => tree' = tree
                  ELSE /\ tree' = tree
                       /\ lex'.parse_label
                       /\ lex'.parse_label_single = lex.parse_label_single
                       /\ lex'.parse_label_double = lex.parse_label_double ]_vars
  /\ []((/\ input = <<"(", "'", "a", ",", "'", ",", "b", ")", ";">>
         /\ Terminal /\ ~ReadFailed /\ args.store_labels)
         => /\ status = "returned"
            /\ tree.children = << <<1, 2>>, << >>, << >> >>
            /\ tree.label = << << >>, <<"a", ",", "'">>, <<"b">> >>)

C25_Witness ==
  /\ status = "returned"
  /\ input = <<"(", "'", "a", ",", "'", ",", "b", ")", ";">>
  /\ args.store_labels
  /\ get_label(tree, 1) = <<"a", ",", "'">>

\* C27: calc_dist(u, v) equals calc_dist(v, u) for every pair of nodes of
\* the store, and (the edge lengths being non-negative) it is never -1.
C27_CalcDistSymmetricNeverError ==
  (status = "returned" /\ last.op = "calc_dist")
    => /\ last.ret = calc_dist(tree, last.v, last.u)
       /\ last.ret # -1

\* C28: on a store without edge lengths calc_distance_matrix() never reads
\* a slot of the empty length container, and it returns one entry per
\* unordered pair of distinct leaves, every distance 0.
C28_MatrixWithoutLengths ==
  /\ "length" \notin ub
  /\ (status = "returned" /\ last.op = "calc_distance_matrix"
        /\ ~has_edge_lengths(tree))
       => LET dm == last.ret
              L == Cardinality(LeavesOf(tree))
          IN /\ BagCardinality(dm) = (L * (L - 1)) \div 2
             /\ \A e \in BagToSet(dm) : e[3] = 0

\* the byte at buf[i] is handled again by the next pass of the loop
Rereads(o) == o.st = "parsing" /\ o.rr
Handled(t, l) == LexByte(t, l, CurByte, args.store_labels, args.store_lengths)

\* C29: construction comes to an end on every input; a byte that is handled
\* again (--i) is handled in another state than the one that asked for it
\* and is not handled a third time; and construction ends by returning at a
\* ';' read at the root or by the parse error, never in any other way.
C29_ParsingTerminates ==
  /\ [](Handling
         => \A o \in Handled(tree, lex) :
              Rereads(o)
                => /\ <<o.l.parse_length, o.l.parse_label>>
                       # <<lex.parse_length, lex.parse_label>>
                   /\ \A o2 \in Handled(o.t, o.l) : ~Rereads(o2))
  /\ [](status # "crashed")
  /\ [](status = "returned"
         => /\ lex.curr_node = ROOT_NODE
            /\ InNormal
            /\ CurByte = ";")
  /\ <>(status \in {"returned", "error", "open_error"})

\* C30: every write into str_buf, of a byte of a label or length token or
\* of the terminating NUL, is at an index below STR_BUFFER_SIZE, however
\* long the token is.
C30_StrBufWritesInBounds ==
  /\ "str_buf" \notin ub
  /\ Handling
       => \A o \in Handled(tree, lex) : "str_buf" \notin o.ub

====
